---- MODULE Spec2Model ----
(***************************************************************************)
(* Model of the image renaming tool: the filename sanitizer clean_text,    *)
(* the product-name heuristic extract_product_name (main.py and app.py     *)
(* hold the same two functions), the batch loop of main.py's rename_images *)
(* with its duplicate-name loop, and app.py's "Process Images" loop with   *)
(* its ZIP packaging.                                                      *)
(*                                                                         *)
(* A Python string is a sequence of one-character strings, so that         *)
(* stripping, substring search, regular expressions, slicing and           *)
(* concatenation are computed character by character.                      *)
(***************************************************************************)
EXTENDS Integers, Sequences, FiniteSets, TLC

VARIABLES
    \* clean_text called on its own
    text_in, clean1, clean2, cpc,
    \* extract_product_name called on its own
    ocr_text, product_name, via, epc,
    \* the batch drivers: which one runs, the images done, the place in the code
    driver, idx, bpc,
    \* locals of one iteration of rename_images / one call of process_image
    text, clean_name, file_extension, new_filename, counter,
    \* main.py: the input listing, the counters, the files of OUTPUT_FOLDER
    image_files, processed, skipped, out_folder,
    \* main.py: OUTPUT_FOLDER as it was found, the copies made by this run,
    \* whether a copy went to a path that existed
    pre_existing, written, overwrote,
    \* app.py: the upload, st.session_state, the names written to the archive
    uploaded_files, processed_images, failed_count, processing_complete,
    zip_entries

cleanVars == <<text_in, clean1, clean2, cpc>>
extractVars == <<ocr_text, product_name, via, epc>>
iterVars == <<text, clean_name, file_extension, new_filename, counter>>
mainVars == <<image_files, processed, skipped, out_folder, pre_existing,
              written, overwrote>>
appVars == <<uploaded_files, processed_images, failed_count,
             processing_complete, zip_entries>>
batchVars == <<driver, idx, bpc, iterVars, mainVars, appVars>>
vars == <<cleanVars, extractVars, batchVars>>

----------------------------------------------------------------------------
(* Characters *)

LowerChars == <<"a","b","c","d","e","f","g","h","i","j","k","l","m",
                "n","o","p","q","r","s","t","u","v","w","x","y","z">>
UpperChars == <<"A","B","C","D","E","F","G","H","I","J","K","L","M",
                "N","O","P","Q","R","S","T","U","V","W","X","Y","Z">>
DigitChars == <<"0","1","2","3","4","5","6","7","8","9">>

Range(f) == {f[i] : i \in DOMAIN f}

Lower == Range(LowerChars)
Upper == Range(UpperChars)
Digit == Range(DigitChars)

\* what str.strip() with no argument removes
Whitespace == {" ", "\t", "\n", "\r"}

\* the complement of the class [^a-zA-Z0-9_&-]
FilenameChars == Lower \cup Upper \cup Digit \cup {"_", "&", "-"}

\* \w of the re module
WordChars == Lower \cup Upper \cup Digit \cup {"_"}

\* str.lower() on one character
LowerChar(c) ==
    IF c \in Upper
    THEN LowerChars[CHOOSE i \in DOMAIN UpperChars : UpperChars[i] = c]
    ELSE c

\* str.lower()
ToLower(s) == [i \in DOMAIN s |-> LowerChar(s[i])]

\* s.strip(chars): drop the leading and trailing characters that are in chars
StripChars(s, chars) ==
    LET keep == {i \in DOMAIN s : s[i] \notin chars}
    IN  IF keep = {} THEN <<>>
        ELSE LET lo == CHOOSE i \in keep : \A j \in keep : i <= j
                 hi == CHOOSE i \in keep : \A j \in keep : j <= i
             IN  SubSeq(s, lo, hi)

\* s.strip()
Strip(s) == StripChars(s, Whitespace)

\* s.replace(old, new) for single characters
ReplaceChar(s, old, new) == [i \in DOMAIN s |-> IF s[i] = old THEN new ELSE s[i]]

\* re.sub(r"[^a-zA-Z0-9_&-]", "_", s)
SubInvalid(s) == [i \in DOMAIN s |-> IF s[i] \in FilenameChars THEN s[i] ELSE "_"]

\* re.sub(r"_+", "_", s): of every maximal run of underscores only the first
\* stays. The range lo..hi is halved, so that the evaluation stays shallow.
RECURSIVE CollapseRange(_, _, _)
CollapseRange(s, lo, hi) ==
    IF lo > hi THEN <<>>
    ELSE IF lo = hi
         THEN IF s[lo] = "_" /\ lo > 1 /\ s[lo - 1] = "_" THEN <<>> ELSE <<s[lo]>>
         ELSE LET mid == (lo + hi) \div 2
              IN  CollapseRange(s, lo, mid) \o CollapseRange(s, mid + 1, hi)

CollapseUnderscores(s) == CollapseRange(s, 1, Len(s))

\* s[:n]
Take(s, n) == SubSeq(s, 1, IF Len(s) < n THEN Len(s) ELSE n)

\* sub in s
Contains(sub, s) ==
    \E k \in 0..(Len(s) - Len(sub)) : SubSeq(s, k + 1, k + Len(sub)) = sub

\* n copies of the character c
Pad(c, n) == [i \in 1..n |-> c]

----------------------------------------------------------------------------
(* clean_text *)

\* the slice limit of "return text[:80]"
MaxNameLen == 80

\* the same statements with the two re.sub calls in the opposite order
clean_text_swapped(t) ==
    LET t1 == ReplaceChar(Strip(t), "\n", " ")
        t2 == CollapseUnderscores(t1)
        t3 == SubInvalid(t2)
        t4 == StripChars(t3, {"_"})
    IN  Take(t4, MaxNameLen)

clean_text(t) ==
    LET t1 == ReplaceChar(Strip(t), "\n", " ")
        t2 == SubInvalid(t1)
        t3 == CollapseUnderscores(t2)
        t4 == StripChars(t3, {"_"})
    IN  Take(t4, MaxNameLen)

----------------------------------------------------------------------------
(* extract_product_name *)

\* what the function returns when no strategy matches. A line is a sequence
\* of one-character strings, so this value is no line.
None == <<"None">>

product_keywords ==
    { <<"o","i","l">>,
      <<"s","e","r","u","m">>,
      <<"c","r","e","a","m">>,
      <<"f","o","u","n","d","a","t","i","o","n">>,
      <<"l","o","t","i","o","n">>,
      <<"g","e","l">>,
      <<"m","o","i","s","t","u","r","i","z","e","r">>,
      <<"c","l","e","a","n","s","e","r">>,
      <<"t","o","n","e","r">>,
      <<"e","s","s","e","n","c","e">>,
      <<"m","a","s","k">>,
      <<"b","a","l","m">>,
      <<"p","r","i","m","e","r">>,
      <<"p","o","w","d","e","r">>,
      <<"l","i","p","s","t","i","c","k">>,
      <<"m","a","s","c","a","r","a">> }

exclude_phrases ==
    { <<"w","a","s"," ","e","v","a","l","u","a","t","e","d">>,
      <<"t","e","s","t","e","d">>,
      <<"d","e","s","c","r","i","p","t","i","o","n">>,
      <<"i","n","g","r","e","d","i","e","n","t","s">>,
      <<"h","o","w"," ","t","o"," ","u","s","e">>,
      <<"d","i","r","e","c","t","i","o","n","s">>,
      <<"w","a","r","n","i","n","g">>,
      <<"c","a","u","t","i","o","n">> }

trigger_phrases ==
    { <<"w","a","s"," ","e","v","a","l","u","a","t","e","d">>,
      <<"t","e","s","t","e","d"," ","f","o","r">>,
      <<"t","e","s","t"," ","r","e","s","u","l","t","s">> }

header_words ==
    { <<"r","e","p","o","r","t">>,
      <<"t","e","s","t">>,
      <<"a","n","a","l","y","s","i","s">>,
      <<"c","e","r","t","i","f","i","c","a","t","e">> }

\* the bounds of "5 < len(line) < 100" and "len(prev_line) > 5"
MinLineLen == 5
MaxLineLen == 100
\* the lower bound of "len(line) > 10" in the fallback
MinFallbackLen == 10

\* the elements of a finite set of integers in increasing order
RECURSIVE SortedSeq(_)
SortedSeq(S) ==
    IF S = {} THEN <<>>
    ELSE LET lo == CHOOSE x \in S : \A y \in S : x <= y
         IN  <<lo>> \o SortedSeq(S \ {lo})

\* text.split('\n'): the pieces between consecutive newlines, the empty ones too
SplitNewline(s) ==
    LET cuts == SortedSeq({i \in DOMAIN s : s[i] = "\n"} \cup {0, Len(s) + 1})
    IN  [k \in 1..(Len(cuts) - 1) |-> SubSeq(s, cuts[k] + 1, cuts[k + 1] - 1)]

\* the same list without the strip: [line for line in text.split('\n') if line]
SplitLines_nostrip(t) == SelectSeq(SplitNewline(t), LAMBDA l : l # <<>>)

\* lines = [line.strip() for line in text.split('\n') if line.strip()]
SplitLines(t) ==
    LET raw == SplitNewline(t)
        stripped == [i \in DOMAIN raw |-> Strip(raw[i])]
    IN  SelectSeq(stripped, LAMBDA l : l # <<>>)

\* any(phrase in line for phrase in phrases)
ContainsAny(phrases, line) == \E p \in phrases : Contains(p, line)

\* \b at offset p of s (between s[p] and s[p+1])
WordBoundary(s, p) ==
    (p > 0 /\ s[p] \in WordChars) # (p < Len(s) /\ s[p + 1] \in WordChars)

\* re.search(r'\bword\b', s, re.IGNORECASE)
SearchWord(word, s) ==
    \E k \in 0..(Len(s) - Len(word)) :
        /\ ToLower(SubSeq(s, k + 1, k + Len(word))) = word
        /\ WordBoundary(s, k)
        /\ WordBoundary(s, k + Len(word))

\* the same search without the \b anchors: re.search(r'by|from', ...)
SearchByFrom_substring(s) ==
    \/ Contains(<<"b","y">>, ToLower(s))
    \/ Contains(<<"f","r","o","m">>, ToLower(s))

\* re.search(r'\bby\b|\bfrom\b', line, re.IGNORECASE)
SearchByFrom(s) ==
    \/ SearchWord(<<"b","y">>, s)
    \/ SearchWord(<<"f","r","o","m">>, s)

\* the test of the Strategy 1 loop body on one line
KeywordLine(line) ==
    /\ ContainsAny(product_keywords, ToLower(line))
    /\ ~ContainsAny(exclude_phrases, ToLower(line))
    /\ MinLineLen < Len(line) /\ Len(line) < MaxLineLen

\* the test of the Strategy 2 loop body at index i (1-based)
TriggerAt(lines, i) ==
    /\ ContainsAny(trigger_phrases, ToLower(lines[i]))
    /\ i > 1
    /\ Len(lines[i - 1]) > MinLineLen

\* the test of the Strategy 3 loop body on one line
AttributionLine(line) ==
    /\ SearchByFrom(line)
    /\ Len(line) > MinLineLen /\ Len(line) < MaxLineLen

\* the test of the Strategy 4 loop body on one line
FallbackLine(line) ==
    /\ Len(line) > MinFallbackLen /\ Len(line) < MaxLineLen
    /\ ~ContainsAny(header_words, ToLower(line))

\* for i, line in enumerate(lines): ... return line
RECURSIVE Strategy1(_, _)
Strategy1(lines, i) ==
    IF i > Len(lines) THEN None
    ELSE IF KeywordLine(lines[i]) THEN lines[i]
    ELSE Strategy1(lines, i + 1)

\* for i, line in enumerate(lines): ... return prev_line
RECURSIVE Strategy2(_, _)
Strategy2(lines, i) ==
    IF i > Len(lines) THEN None
    ELSE IF TriggerAt(lines, i) THEN lines[i - 1]
    ELSE Strategy2(lines, i + 1)

RECURSIVE Strategy3(_, _)
Strategy3(lines, i) ==
    IF i > Len(lines) THEN None
    ELSE IF AttributionLine(lines[i]) THEN lines[i]
    ELSE Strategy3(lines, i + 1)

RECURSIVE Strategy4(_, _)
Strategy4(lines, i) ==
    IF i > Len(lines) THEN None
    ELSE IF FallbackLine(lines[i]) THEN lines[i]
    ELSE Strategy4(lines, i + 1)

\* the four loops with the attribution loop moved in front of the keyword loop
TryStrategies_reordered(lines) ==
    LET r1 == Strategy1(lines, 1)
        r2 == Strategy2(lines, 1)
        r3 == Strategy3(lines, 1)
        r4 == Strategy4(lines, 1)
    IN  IF r3 # None THEN [value |-> r3, site |-> 3]
        ELSE IF r1 # None THEN [value |-> r1, site |-> 1]
        ELSE IF r2 # None THEN [value |-> r2, site |-> 2]
        ELSE IF r4 # None THEN [value |-> r4, site |-> 4]
        ELSE [value |-> None, site |-> 0]

\* the four loops in the order of the function body; site is the return
\* statement taken: 1..4 for the loop, 0 for the final "return None"
TryStrategies(lines) ==
    LET r1 == Strategy1(lines, 1)
        r2 == Strategy2(lines, 1)
        r3 == Strategy3(lines, 1)
        r4 == Strategy4(lines, 1)
    IN  IF r1 # None THEN [value |-> r1, site |-> 1]
        ELSE IF r2 # None THEN [value |-> r2, site |-> 2]
        ELSE IF r3 # None THEN [value |-> r3, site |-> 3]
        ELSE IF r4 # None THEN [value |-> r4, site |-> 4]
        ELSE [value |-> None, site |-> 0]

extract_result(t) == TryStrategies(SplitLines(t))

extract_product_name(t) == extract_result(t).value

----------------------------------------------------------------------------
(* Recognized lines the texts are drawn from *)

\* 'Vitamin C Serum'
VitaminCSerum ==
    <<"V","i","t","a","m","i","n"," ","C"," ","S","e","r","u","m">>

\* 'Brand X Serum was evaluated'
BrandXEvaluated ==
    <<"B","r","a","n","d"," ","X"," ","S","e","r","u","m"," ","w","a","s",
      " ","e","v","a","l","u","a","t","e","d">>

\* 'Serum Ingredients Description'
SerumIngredients ==
    <<"S","e","r","u","m"," ","I","n","g","r","e","d","i","e","n","t","s",
      " ","D","e","s","c","r","i","p","t","i","o","n">>

\* 'Night Repair by Luna'
NightRepairByLuna ==
    <<"N","i","g","h","t"," ","R","e","p","a","i","r"," ","b","y"," ","L",
      "u","n","a">>

\* 'Bystander Corp Products'
BystanderCorp ==
    <<"B","y","s","t","a","n","d","e","r"," ","C","o","r","p"," ","P","r",
      "o","d","u","c","t","s">>

\* 'CERTIFICATE OF ANALYSIS'
CertificateOfAnalysis ==
    <<"C","E","R","T","I","F","I","C","A","T","E"," ","O","F"," ","A","N",
      "A","L","Y","S","I","S">>

\* 'Test Results'
TestResults ==
    <<"T","e","s","t"," ","R","e","s","u","l","t","s">>

\* 'Lot 42'
Lot42 ==
    <<"L","o","t"," ","4","2">>

\* 'Cream'
Cream5 ==
    <<"C","r","e","a","m">>

\* '***********'
Stars ==
    <<"*","*","*","*","*","*","*","*","*","*","*">>

\* 'FROM A'
FromA ==
    <<"F","R","O","M"," ","A">>

\* 'Shot_by_X'
ShotByX ==
    <<"S","h","o","t","_","b","y","_","X">>

\* '  Face Cream \t\r'
FaceCreamPadded ==
    <<" "," ","F","a","c","e"," ","C","r","e","a","m"," ","\t","\r">>

\* '            '
Blank ==
    <<" "," "," "," "," "," "," "," "," "," "," "," ">>

\* ''
Empty ==
    <<>>

\* 'Face Serum'
FaceSerum ==
    <<"F","a","c","e"," ","S","e","r","u","m">>

\* 'Face Serum 1'
FaceSerum1 ==
    <<"F","a","c","e"," ","S","e","r","u","m"," ","1">>


\* 'Serum' followed by 95 'x': a keyword line of exactly 100 characters
LongSerum == <<"S","e","r","u","m">> \o Pad("x", MaxLineLen - 5)

LinePool ==
    { VitaminCSerum, BrandXEvaluated, SerumIngredients, NightRepairByLuna,
      BystanderCorp, CertificateOfAnalysis, TestResults, Lot42, Cream5, Stars,
      FromA, ShotByX, FaceCreamPadded, Blank, Empty, LongSerum }

\* the most lines a recognized text has
MaxLines == 2

\* "\n".join(ls)
RECURSIVE JoinLines(_)
JoinLines(ls) ==
    IF Len(ls) = 0 THEN <<>>
    ELSE IF Len(ls) = 1 THEN ls[1]
    ELSE ls[1] \o <<"\n">> \o JoinLines(Tail(ls))

SeqsUpTo(S, n) == UNION {[1..k -> S] : k \in 0..n}

Texts == {JoinLines(ls) : ls \in SeqsUpTo(LinePool, MaxLines)}

----------------------------------------------------------------------------
(* clean_text called on its own: SpecClean *)

\* the characters the inputs are built from: a filename character, the
\* underscore, two kinds of whitespace and a character outside the class
CleanAlphabet == {"a", "_", " ", "\n", "*"}

\* the most characters in front of and behind the run of 'a's of an input
MaxPrefixLen == 2
MaxSuffixLen == 2

\* lengths of the run of 'a's: none, and one that ends just below the slice limit
RunLens == {0, MaxNameLen - 1}

CleanInputs ==
    { pre \o Pad("a", n) \o suf :
        pre \in SeqsUpTo(CleanAlphabet, MaxPrefixLen),
        n \in RunLens,
        suf \in SeqsUpTo(CleanAlphabet, MaxSuffixLen) }

InitExtractIdle ==
    /\ ocr_text = <<>> /\ product_name = None /\ via = 0 /\ epc = "idle"

InitBatchIdle ==
    /\ driver = "none" /\ idx = 0 /\ bpc = "idle"
    /\ text = <<>> /\ clean_name = <<>> /\ file_extension = <<>>
    /\ new_filename = <<>> /\ counter = 0
    /\ image_files = <<>> /\ processed = 0 /\ skipped = 0
    /\ out_folder = {} /\ pre_existing = {} /\ written = <<>>
    /\ overwrote = FALSE
    /\ uploaded_files = <<>> /\ processed_images = <<>> /\ failed_count = 0
    /\ processing_complete = FALSE /\ zip_entries = <<>>

InitCleanIdle ==
    /\ text_in = <<>> /\ clean1 = <<>> /\ clean2 = <<>> /\ cpc = "idle"

InitClean ==
    /\ text_in \in CleanInputs
    /\ clean1 = <<>> /\ clean2 = <<>> /\ cpc = "start"
    /\ InitExtractIdle /\ InitBatchIdle

\* clean_name = clean_text(text_in)
CleanOnce ==
    /\ cpc = "start"
    /\ clean1' = clean_text(text_in)
    /\ cpc' = "once"
    /\ UNCHANGED <<text_in, clean2, extractVars, batchVars>>

\* clean_text applied to its own result
CleanAgain ==
    /\ cpc = "once"
    /\ clean2' = clean_text(clean1)
    /\ cpc' = "twice"
    /\ UNCHANGED <<text_in, clean1, extractVars, batchVars>>

NextClean == CleanOnce \/ CleanAgain

SpecClean == InitClean /\ [][NextClean]_vars

----------------------------------------------------------------------------
(* extract_product_name called on its own: SpecExtract *)

InitExtract ==
    /\ ocr_text \in Texts
    /\ product_name = None /\ via = 0 /\ epc = "start"
    /\ InitCleanIdle /\ InitBatchIdle

\* product_name = extract_product_name(ocr_text)
Extract ==
    /\ epc = "start"
    /\ product_name' = extract_product_name(ocr_text)
    /\ via' = extract_result(ocr_text).site
    /\ epc' = "done"
    /\ UNCHANGED <<ocr_text, cleanVars, batchVars>>

NextExtract == Extract

SpecExtract == InitExtract /\ [][NextExtract]_vars

----------------------------------------------------------------------------
(* File names *)

\* str(n) for n >= 0
RECURSIVE IntToStr(_)
IntToStr(n) ==
    IF n < 10 THEN <<DigitChars[n + 1]>>
    ELSE IntToStr(n \div 10) \o <<DigitChars[(n % 10) + 1]>>

LastDot(fn) ==
    LET dots == {i \in DOMAIN fn : fn[i] = "."}
    IN  IF dots = {} THEN 0 ELSE CHOOSE i \in dots : \A j \in dots : j <= i

\* os.path.splitext(fn): the extension starts at the last dot, unless only
\* dots come before it
SplitExt(fn) ==
    LET d == LastDot(fn)
    IN  IF d = 0 \/ \A i \in 1..(d - 1) : fn[i] = "."
        THEN <<fn, <<>>>>
        ELSE <<SubSeq(fn, 1, d - 1), SubSeq(fn, d, Len(fn))>>

\* fn.rsplit('.', 1)
RSplitDot(fn) ==
    LET d == LastDot(fn)
    IN  IF d = 0 THEN <<fn>>
        ELSE <<SubSeq(fn, 1, d - 1), SubSeq(fn, d + 1, Len(fn))>>

\* fn.split('.')[-1]
LastDotPart(fn) == SubSeq(fn, LastDot(fn) + 1, Len(fn))

----------------------------------------------------------------------------
(* The batch drivers: SpecBatch *)

\* the most images of one batch
MaxImages == 3

Png == <<"p","n","g">>
Jpg == <<"j","p","g">>
Extensions == {Png, Jpg}

\* the i-th file of a batch: "<i>.<ext>"
FileName(i, ext) == IntToStr(i) \o <<".">> \o ext

Batches ==
    UNION { { [i \in 1..n |-> FileName(i, e[i])] : e \in [1..n -> Extensions] } :
            n \in 0..MaxImages }

\* what the recognition of one image may give: two product names, the
\* second the first followed by " 1", a line of symbols and a blank text
OcrTexts == {FaceSerum, FaceSerum1, Stars, Blank}

\* files OUTPUT_FOLDER may hold before the run
FaceSerumPng == <<"F","a","c","e","_","S","e","r","u","m",".","p","n","g">>
FaceSerum1Png == <<"F","a","c","e","_","S","e","r","u","m","_","1",".","p","n","g">>
OldOutputs == {FaceSerumPng, FaceSerum1Png}

InitBatch ==
    /\ driver \in {"main", "app"}
    /\ idx = 0 /\ bpc = "loop"
    /\ text = None /\ clean_name = <<>> /\ file_extension = <<>>
    /\ new_filename = <<>> /\ counter = 0
    /\ processed = 0 /\ skipped = 0
    /\ written = <<>> /\ overwrote = FALSE
    /\ processed_images = <<>> /\ failed_count = 0
    /\ processing_complete = FALSE /\ zip_entries = <<>>
    /\ IF driver = "main"
       THEN /\ image_files \in Batches
            /\ out_folder \in SUBSET OldOutputs
            /\ uploaded_files = <<>>
       ELSE /\ uploaded_files \in Batches \ {<<>>}
            /\ out_folder = {}
            /\ image_files = <<>>
    /\ pre_existing = out_folder
    /\ InitCleanIdle /\ InitExtractIdle

\* "if not product_name" / "if not clean_name": None and "" are both false
IsFalsy(v) == v = None \/ v = <<>>

\* product_name = extract_product_name(text) and, for a product name,
\* clean_name = clean_text(product_name), for each text an image may give
Pipeline ==
    [t \in OcrTexts |->
        LET p == extract_product_name(t)
        IN  [product_name |-> p,
             clean_name |-> IF IsFalsy(p) THEN <<>> ELSE clean_text(p)]]

\* the skip of an empty clean_name left out
NameIsEmpty_never(name) == FALSE

\* main.py: "if not clean_name:"
NameIsEmpty(name) == IsFalsy(name)

\* the existence test of the duplicate loop left out
PathExists_never(folder, name) == FALSE

\* os.path.exists(os.path.join(OUTPUT_FOLDER, name))
PathExists(folder, name) == name \in folder

(* main.py, rename_images *)

\* "if not image_files: ... return"
MainNoFiles ==
    /\ driver = "main" /\ bpc = "loop" /\ image_files = <<>>
    /\ bpc' = "done"
    /\ UNCHANGED <<driver, idx, iterVars, mainVars, appVars, cleanVars, extractVars>>

\* Image.open or image_to_string raises: the except clause counts the image
MainOcrError ==
    /\ driver = "main" /\ bpc = "loop" /\ idx < Len(image_files)
    /\ text' = None
    /\ skipped' = skipped + 1
    /\ idx' = idx + 1
    /\ UNCHANGED <<driver, bpc, clean_name, file_extension, new_filename, counter,
                   image_files, processed, out_folder, pre_existing, written,
                   overwrote, appVars, cleanVars, extractVars>>

\* "if not product_name: skipped += 1; continue"
MainNoProduct(t) ==
    /\ driver = "main" /\ bpc = "loop" /\ idx < Len(image_files)
    /\ IsFalsy(Pipeline[t].product_name)
    /\ text' = t
    /\ skipped' = skipped + 1
    /\ idx' = idx + 1
    /\ UNCHANGED <<driver, bpc, clean_name, file_extension, new_filename, counter,
                   image_files, processed, out_folder, pre_existing, written,
                   overwrote, appVars, cleanVars, extractVars>>

\* "if not clean_name: skipped += 1; continue"
MainEmptyName(t) ==
    /\ driver = "main" /\ bpc = "loop" /\ idx < Len(image_files)
    /\ ~IsFalsy(Pipeline[t].product_name)
    /\ NameIsEmpty(Pipeline[t].clean_name)
    /\ text' = t
    /\ clean_name' = Pipeline[t].clean_name
    /\ skipped' = skipped + 1
    /\ idx' = idx + 1
    /\ UNCHANGED <<driver, bpc, file_extension, new_filename, counter,
                   image_files, processed, out_folder, pre_existing, written,
                   overwrote, appVars, cleanVars, extractVars>>

\* new_filename = clean_name + file_extension; counter = 1
MainNewName(t) ==
    /\ driver = "main" /\ bpc = "loop" /\ idx < Len(image_files)
    /\ ~IsFalsy(Pipeline[t].product_name)
    /\ ~NameIsEmpty(Pipeline[t].clean_name)
    /\ text' = t
    /\ clean_name' = Pipeline[t].clean_name
    /\ file_extension' = SplitExt(image_files[idx + 1])[2]
    /\ new_filename' = clean_name' \o file_extension'
    /\ counter' = 1
    /\ bpc' = "dup"
    /\ UNCHANGED <<driver, idx, mainVars, appVars, cleanVars, extractVars>>

\* one turn of "while os.path.exists(output_path):"
MainDupStep ==
    /\ driver = "main" /\ bpc = "dup"
    /\ PathExists(out_folder, new_filename)
    /\ new_filename' = clean_name \o <<"_">> \o IntToStr(counter) \o file_extension
    /\ counter' = counter + 1
    /\ UNCHANGED <<driver, idx, bpc, text, clean_name, file_extension, mainVars,
                   appVars, cleanVars, extractVars>>

\* shutil.copy2(input_path, output_path) succeeds; processed += 1
MainCopy ==
    /\ driver = "main" /\ bpc = "dup"
    /\ ~PathExists(out_folder, new_filename)
    /\ overwrote' = (overwrote \/ new_filename \in out_folder)
    /\ out_folder' = out_folder \cup {new_filename}
    /\ written' = Append(written, [name |-> new_filename, stem |-> clean_name,
                                   ext |-> file_extension])
    /\ processed' = processed + 1
    /\ idx' = idx + 1
    /\ bpc' = "loop"
    /\ UNCHANGED <<driver, iterVars, image_files, skipped, pre_existing, appVars,
                   cleanVars, extractVars>>

\* shutil.copy2 raises, with or without a file left at output_path: the
\* except clause counts the image
MainCopyError ==
    /\ driver = "main" /\ bpc = "dup"
    /\ ~PathExists(out_folder, new_filename)
    /\ out_folder' \in {out_folder, out_folder \cup {new_filename}}
    /\ overwrote' = (overwrote \/ (new_filename \in out_folder /\ out_folder' # out_folder))
    /\ skipped' = skipped + 1
    /\ idx' = idx + 1
    /\ bpc' = "loop"
    /\ UNCHANGED <<driver, iterVars, image_files, processed, pre_existing, written,
                   appVars, cleanVars, extractVars>>

\* the loop is over: the summary is printed
MainSummary ==
    /\ driver = "main" /\ bpc = "loop"
    /\ image_files # <<>> /\ idx = Len(image_files)
    /\ bpc' = "done"
    /\ UNCHANGED <<driver, idx, iterVars, mainVars, appVars, cleanVars, extractVars>>

(* app.py, the "Process Images" loop, process_image and the ZIP packaging *)

\* app.py: "if not clean_name:"
AppNameIsEmpty(name) == IsFalsy(name)

\* Image.open(uploaded_file) raises in the loop body, outside any try: the
\* script run ends with the exception
AppOpenError ==
    /\ driver = "app" /\ bpc = "loop" /\ idx < Len(uploaded_files)
    /\ bpc' = "aborted"
    /\ UNCHANGED <<driver, idx, iterVars, mainVars, appVars, cleanVars, extractVars>>

\* image_to_string or image.save raises inside process_image, which returns
\* (None, None); the loop counts the image as failed
AppProcessError ==
    /\ driver = "app" /\ bpc = "loop" /\ idx < Len(uploaded_files)
    /\ text' = None
    /\ failed_count' = failed_count + 1
    /\ idx' = idx + 1
    /\ UNCHANGED <<driver, bpc, clean_name, file_extension, new_filename, counter,
                   mainVars, uploaded_files, processed_images,
                   processing_complete, zip_entries, cleanVars, extractVars>>

\* process_image: "if not product_name: return None, None"
AppNoProduct(t) ==
    /\ driver = "app" /\ bpc = "loop" /\ idx < Len(uploaded_files)
    /\ IsFalsy(Pipeline[t].product_name)
    /\ text' = t
    /\ failed_count' = failed_count + 1
    /\ idx' = idx + 1
    /\ UNCHANGED <<driver, bpc, clean_name, file_extension, new_filename, counter,
                   mainVars, uploaded_files, processed_images,
                   processing_complete, zip_entries, cleanVars, extractVars>>

\* process_image: "if not clean_name: return None, None"
AppEmptyName(t) ==
    /\ driver = "app" /\ bpc = "loop" /\ idx < Len(uploaded_files)
    /\ ~IsFalsy(Pipeline[t].product_name)
    /\ AppNameIsEmpty(Pipeline[t].clean_name)
    /\ text' = t
    /\ clean_name' = Pipeline[t].clean_name
    /\ failed_count' = failed_count + 1
    /\ idx' = idx + 1
    /\ UNCHANGED <<driver, bpc, file_extension, new_filename, counter,
                   mainVars, uploaded_files, processed_images,
                   processing_complete, zip_entries, cleanVars, extractVars>>

\* process_image returns (new_filename, bytes); the loop appends the pair.
\* The bytes of an image are stood for by its index in the upload.
AppRenamed(t) ==
    /\ driver = "app" /\ bpc = "loop" /\ idx < Len(uploaded_files)
    /\ ~IsFalsy(Pipeline[t].product_name)
    /\ ~AppNameIsEmpty(Pipeline[t].clean_name)
    /\ text' = t
    /\ clean_name' = Pipeline[t].clean_name
    /\ file_extension' = LastDotPart(uploaded_files[idx + 1])
    /\ new_filename' = clean_name' \o <<".">> \o file_extension'
    /\ processed_images' = Append(processed_images, <<new_filename', idx + 1>>)
    /\ idx' = idx + 1
    /\ UNCHANGED <<driver, bpc, counter, mainVars, uploaded_files, failed_count,
                   processing_complete, zip_entries, cleanVars, extractVars>>

\* the loop is over: st.session_state.processing_complete = True
AppComplete ==
    /\ driver = "app" /\ bpc = "loop" /\ idx = Len(uploaded_files)
    /\ processing_complete' = TRUE
    /\ bpc' = "complete"
    /\ UNCHANGED <<driver, idx, iterVars, mainVars, uploaded_files,
                   processed_images, failed_count, zip_entries, cleanVars,
                   extractVars>>

\* used_names = {}; for filename, img_bytes in processed_images: ...
\* zip_file.writestr(filename, img_bytes)
RECURSIVE ZipWrite(_, _, _, _)
ZipWrite(images, i, used_names, entries) ==
    IF i > Len(images) THEN entries
    ELSE LET filename == images[i][1]
             img_bytes == images[i][2]
         IN  IF filename \in DOMAIN used_names
             THEN LET n == used_names[filename] + 1
                      name_parts == RSplitDot(filename)
                      renamed == name_parts[1] \o <<"_">> \o IntToStr(n)
                                     \o <<".">> \o name_parts[2]
                  IN  ZipWrite(images, i + 1,
                               [used_names EXCEPT ![filename] = n],
                               Append(entries, <<renamed, img_bytes>>))
             ELSE ZipWrite(images, i + 1,
                           used_names @@ (filename :> 0),
                           Append(entries, <<filename, img_bytes>>))

\* the else branch of "if len(processed_images) == 1": the archive is built
AppZip ==
    /\ driver = "app" /\ bpc = "complete"
    /\ processing_complete
    /\ Len(processed_images) > 1
    /\ zip_entries' = ZipWrite(processed_images, 1, <<>>, <<>>)
    /\ bpc' = "zipped"
    /\ UNCHANGED <<driver, idx, iterVars, mainVars, uploaded_files,
                   processed_images, failed_count, processing_complete,
                   cleanVars, extractVars>>

NextBatch ==
    \/ MainNoFiles
    \/ MainOcrError
    \/ \E t \in OcrTexts : MainNoProduct(t)
    \/ \E t \in OcrTexts : MainEmptyName(t)
    \/ \E t \in OcrTexts : MainNewName(t)
    \/ MainDupStep
    \/ MainCopy
    \/ MainCopyError
    \/ MainSummary
    \/ AppOpenError
    \/ AppProcessError
    \/ \E t \in OcrTexts : AppNoProduct(t)
    \/ \E t \in OcrTexts : AppEmptyName(t)
    \/ \E t \in OcrTexts : AppRenamed(t)
    \/ AppComplete
    \/ AppZip

SpecBatch == InitBatch /\ [][NextBatch]_vars

----------------------------------------------------------------------------
(* Claims about clean_text, under SpecClean *)

NoDoubleUnderscore(s) ==
    \A i \in 1..(Len(s) - 1) : ~(s[i] = "_" /\ s[i + 1] = "_")

NoEdgeUnderscore(s) == s # <<>> => s[1] # "_" /\ s[Len(s)] # "_"

\* C1: for every input the result of clean_text has at most 80 characters,
\* all of them from [a-zA-Z0-9_&-], holds no two consecutive underscores and
\* neither starts nor ends with an underscore, inputs longer than 80
\* characters included.
C1_AlwaysSanitized ==
    cpc \in {"once", "twice"} =>
        /\ Len(clean1) <= MaxNameLen
        /\ \A i \in DOMAIN clean1 : clean1[i] \in FilenameChars
        /\ NoDoubleUnderscore(clean1)
        /\ NoEdgeUnderscore(clean1)

\* C4: clean_text is idempotent on inputs of at most 80 characters:
\* cleaning the cleaned name again gives the cleaned name.
C4_Idempotent ==
    (cpc = "twice" /\ Len(text_in) <= MaxNameLen) => clean2 = clean1

\* an input within the limit that cleaning changed to a non-empty name, cleaned twice
C4_Witness ==
    /\ cpc = "twice"
    /\ Len(text_in) <= MaxNameLen
    /\ clean1 # text_in
    /\ clean1 # <<>>
    /\ \E i \in DOMAIN clean1 : clean1[i] = "_"

----------------------------------------------------------------------------
(* Claims about extract_product_name, under SpecExtract *)

\* C2: a line that holds a product keyword and an exclusion phrase is never
\* the value extract_product_name returns.
C2_ExcludedNeverReturned ==
    epc = "done" =>
        ~( /\ product_name # None
           /\ ContainsAny(product_keywords, ToLower(product_name))
           /\ ContainsAny(exclude_phrases, ToLower(product_name)) )

\* whether strategy k takes a line at index i of lines, and the line it returns then
Accepts(k, lines, i) ==
    CASE k = 1 -> KeywordLine(lines[i])
      [] k = 2 -> TriggerAt(lines, i)
      [] k = 3 -> AttributionLine(lines[i])
      [] k = 4 -> FallbackLine(lines[i])

Candidate(k, lines, i) == IF k = 2 THEN lines[i - 1] ELSE lines[i]

Hits(lines) == {h \in (1..4) \X DOMAIN lines : Accepts(h[1], lines, h[2])}

\* C3: the result is the line of the lowest-numbered strategy that accepts
\* any line, at the first index where that strategy accepts, also when a
\* higher-numbered strategy accepts an earlier line; it is None exactly when
\* no strategy accepts any line. 'Vitamin C Serum' followed by
\* 'Brand X Serum was evaluated' gives 'Vitamin C Serum'.
C3_FirstStrategyWins ==
    epc = "done" =>
        LET lines == SplitLines(ocr_text)
            hits == Hits(lines)
        IN  /\ (product_name = None) <=> (hits = {})
            /\ hits # {} =>
                 LET best == CHOOSE h \in hits : \A g \in hits :
                                 h[1] < g[1] \/ (h[1] = g[1] /\ h[2] <= g[2])
                 IN  /\ product_name = Candidate(best[1], lines, best[2])
                     /\ via = best[1]
            /\ ocr_text = JoinLines(<<VitaminCSerum, BrandXEvaluated>>)
                 => product_name = VitaminCSerum

\* a keyword line returned although the attribution strategy accepts an earlier line
C3_Witness ==
    /\ epc = "done"
    /\ ocr_text = JoinLines(<<NightRepairByLuna, VitaminCSerum>>)
    /\ product_name = VitaminCSerum
    /\ via = 1

\* the maximal runs of word characters of a line
WordsOf(s) ==
    { SubSeq(s, a, b) : <<a, b>> \in
        { p \in (DOMAIN s) \X (DOMAIN s) :
            /\ p[1] <= p[2]
            /\ \A i \in p[1]..p[2] : s[i] \in WordChars
            /\ (p[1] = 1 \/ s[p[1] - 1] \notin WordChars)
            /\ (p[2] = Len(s) \/ s[p[2] + 1] \notin WordChars) } }

HasWholeWordByFrom(s) ==
    \E w \in WordsOf(s) : ToLower(w) \in {<<"b","y">>, <<"f","r","o","m">>}

\* C5: a line returned by Strategy 3 has 'by' or 'from' as a whole word, in
\* any case, and a length strictly between 5 and 100; 'Bystander Corp
\* Products' is never returned by Strategy 3, and the text 'Night Repair by
\* Luna' alone returns that line through Strategy 3.
C5_AttributionWholeWord ==
    epc = "done" =>
        /\ via = 3 =>
             /\ HasWholeWordByFrom(product_name)
             /\ MinLineLen < Len(product_name) /\ Len(product_name) < MaxLineLen
             /\ product_name # BystanderCorp
        /\ ocr_text = NightRepairByLuna =>
             via = 3 /\ product_name = NightRepairByLuna

\* Strategy 3 returned a line whose 'from' is in capitals, from a text that
\* also holds a line with 'by' inside a longer word
C5_Witness ==
    /\ epc = "done"
    /\ via = 3
    /\ product_name = FromA
    /\ ocr_text = JoinLines(<<ShotByX, FromA>>)

AllWhitespace(s) == \A i \in DOMAIN s : s[i] \in Whitespace

\* C6: extract_product_name returns None for every text with no line that
\* is non-empty after trimming: the empty string and any text of whitespace
\* and newlines only.
C6_NoneOnBlankText ==
    (epc = "done" /\ AllWhitespace(ocr_text)) => (product_name = None /\ via = 0)

\* a text of two lines of spaces, longer than the fallback's minimum
C6_Witness ==
    /\ epc = "done"
    /\ ocr_text = JoinLines(<<Blank, Blank>>)
    /\ product_name = None

----------------------------------------------------------------------------
(* Claims about the batch drivers, under SpecBatch *)

\* C7: in both drivers a failure while opening, recognising or saving one
\* image never aborts the batch, and when the loop has ended every image
\* has been counted once, as processed or as skipped/failed.
C7_FailureNeverAborts ==
    /\ bpc # "aborted"
    /\ (driver = "main" /\ bpc = "done") =>
           processed + skipped = Len(image_files)
    /\ (driver = "app" /\ bpc \in {"complete", "zipped"}) =>
           Len(processed_images) + failed_count = Len(uploaded_files)

\* the recognized text yields no file name: no candidate line, or a
\* candidate that clean_text reduces to the empty string
YieldsNoName(t) ==
    \/ extract_product_name(t) = None
    \/ clean_text(extract_product_name(t)) = <<>>

\* the part of a file name in front of its last dot
StemOf(fn) == RSplitDot(fn)[1]

\* C8: an image whose candidate is cleaned to the empty string is treated
\* as one with no candidate: no output file or archive entry, the
\* skipped/failed counter one higher, the processed counter/list unchanged,
\* the batch continuing; and no emitted file name has an empty stem.
C8_EmptyNameSkipped ==
    /\ [][ (idx' = idx + 1 /\ text' # None /\ YieldsNoName(text')) =>
             /\ bpc' = "loop"
             /\ driver = "main" =>
                  /\ skipped' = skipped + 1
                  /\ processed' = processed
                  /\ out_folder' = out_folder
                  /\ written' = written
             /\ driver = "app" =>
                  /\ failed_count' = failed_count + 1
                  /\ processed_images' = processed_images ]_vars
    /\ [] /\ \A i \in DOMAIN written : StemOf(written[i].name) # <<>>
          /\ \A f \in out_folder : StemOf(f) # <<>>
          /\ \A i \in DOMAIN processed_images : StemOf(processed_images[i][1]) # <<>>
          /\ \A i \in DOMAIN zip_entries : StemOf(zip_entries[i][1]) # <<>>

\* rename_images has copied one image and then skipped one whose only line,
\* eleven asterisks, is cleaned to the empty string
C8_Witness ==
    /\ driver = "main" /\ bpc = "loop"
    /\ idx = 2
    /\ text = Stars
    /\ extract_product_name(text) = Stars
    /\ clean_text(Stars) = <<>>
    /\ processed = 1 /\ skipped = 1
    /\ Len(written) = 1

\* C9: the entry names written to the archive are pairwise distinct.
C9_ZipNamesDistinct ==
    bpc = "zipped" =>
        \A i, j \in DOMAIN zip_entries :
            i # j => zip_entries[i][1] # zip_entries[j][1]

\* C10: in rename_images the duplicate loop ends within as many turns as
\* OUTPUT_FOLDER has files, no copy goes to a path that exists, so no file
\* found in the folder and no file written earlier in the run is
\* overwritten, and the copies of one run have pairwise distinct names of
\* the form clean_name + ext or clean_name_k + ext with k >= 1.
C10_NoOverwrite ==
    driver = "main" =>
        /\ ~overwrote
        /\ bpc = "dup" => counter <= Cardinality(out_folder) + 1
        /\ \A i \in DOMAIN written :
             /\ written[i].name \notin pre_existing
             /\ \A j \in DOMAIN written : i # j => written[i].name # written[j].name
             /\ \/ written[i].name = written[i].stem \o written[i].ext
                \/ \E k \in 1..Cardinality(out_folder) :
                     written[i].name =
                         written[i].stem \o <<"_">> \o IntToStr(k) \o written[i].ext

\* a run over a folder that held Face_Serum.png and Face_Serum_1.png has
\* copied two images, one of them after two turns of the duplicate loop
C10_Witness ==
    /\ driver = "main" /\ bpc = "done"
    /\ pre_existing = OldOutputs
    /\ Len(written) >= 2
    /\ \E i \in DOMAIN written :
         written[i].name = <<"F","a","c","e","_","S","e","r","u","m","_","2",".","p","n","g">>

====
